---- MODULE Spec2Model ----
(***************************************************************************)
(* Usage-based change tracking for valtio stores (useStore).               *)
(*                                                                         *)
(* A coordinator (UseStoreAdmin) wraps the stores a component reads in     *)
(* access-recording proxies ("views"), subscribes to every store it        *)
(* touches, and on getSnapshot invalidates the cached views of the stores  *)
(* whose accessed keys intersect their changed keys.                       *)
(*                                                                         *)
(* The object graph and the store's notification stream are the valtio     *)
(* core (proxy / subscribe / isStore), which useStore only imports.        *)
(***************************************************************************)
EXTENDS Naturals, Sequences, FiniteSets, TLC

\* ---------------------------------------------------------------- bounds
MaxWrites == 2         \* store mutations in one behaviour
MaxRenders == 2        \* useStore calls (renders) of the component
MaxProxies == 2        \* views created for one store by one coordinator
MaxChildWrites == 1    \* store mutations, with a parent and a child component
MaxChildRenders == 1   \* useStore calls of each, parent and child
MaxEnumWrites == 1     \* store mutations, with views that are enumerated
MaxEnumRenders == 1    \* useStore calls, with views that are enumerated
MaxShortWrites == 1    \* store mutations in a behaviour of a single cycle
MaxShortRenders == 1   \* useStore calls in a behaviour of a single cycle
MaxPairWrites == 2     \* store mutations, with two components on one store
MaxPairRenders == 1    \* useStore calls of each of the two components
MaxGetterWrites == 1   \* store mutations, on a store with computed getters
MaxGetterRenders == 1  \* useStore calls, on a store with computed getters
MaxUnmountWrites == 1  \* store mutations, with a component that unmounts
MaxUnmountRenders == 1 \* useStore calls of a component that unmounts
MaxCycleWrites == 1    \* store mutations, on two stores that hold each other
MaxCycleRenders == 2   \* useStore calls, on two stores that hold each other
MaxViewWrites == 2     \* increments made through a view
MaxViewRenders == 2    \* useStore calls of a component that writes through views
MaxSnaps == 2          \* snapshot objects created in one behaviour
MaxVersion == 3        \* effective assignments to the state
MaxGetterCalls == 4    \* invocations of one getter
MaxCount == 2          \* values of the count property: 1..MaxCount
MaxRootProxies == 2    \* root proxies made by the first variant of useStore

\* ------------------------------------------------------------ the values
Admins == {1, 2}
Nodes == {"root", "a", "b"}

\* Symbols are written @@description; no string key starts with @@.
GET_STORE_SYMBOL == "@@"
TagSym == "@@tag"
Keys == {"a", "b", "x", "y", TagSym}

\* String(key): a string is itself, a symbol becomes "Symbol(description)".
StringOf(k) ==
  IF k = TagSym THEN "Symbol(tag)"
  ELSE IF k = GET_STORE_SYMBOL THEN "Symbol()"
  ELSE k

Undef == [kind |-> "undef", ref |-> "", adm |-> 0, id |-> 0]
Prim(p) == [kind |-> "prim", ref |-> p, adm |-> 0, id |-> 0]
ObjVal(o) == [kind |-> "obj", ref |-> o, adm |-> 0, id |-> 0]
StoreVal(n) == [kind |-> "store", ref |-> n, adm |-> 0, id |-> 0]
ViewVal(c, n, i) == [kind |-> "view", ref |-> n, adm |-> c, id |-> i]
\* An accessor property: the value of the key is what the getter g computes.
GetterVal(g) == [kind |-> "getter", ref |-> g, adm |-> 0, id |-> 0]

\* The keys a getter reads of this, in the order it reads them:
\* get count() { return this.x }, get doubled() { return this.b * 2 } where
\* b is the count getter, get label() { return this[tag] }.
GetterBody(g) ==
  CASE g = "count" -> <<"x">>
    [] g = "doubled" -> <<"b">>
    [] g = "label" -> <<TagSym>>
    [] OTHER -> <<>>

\* The values a component assigns to a key.
Vals == {Prim("0"), Prim("1"), ObjVal("o")}

isStore(v) == v.kind = "store"

Range(s) == {s[i] : i \in 1..Len(s)}

\* --------------------------------------------------------- the store graph
\* Three graphs of stores.  "tree": root = {a: {x}, x, [tag]}.
\* "nested": root = {a: {x}}.  "flat": root = {x, y}.
\* "cycle": root = {a: A} and A = {b: root, x}, each holding the other.
\* "fork": root = {a: {x, y}, b: {x, y}}.
\* "getters": root = {x, [tag], get b: count, get y: doubled, get a: label}.
\* "diamond": root = {a: {b}, b}, where a.b and root.b are one store {x}.
Shapes == {"tree", "nested", "flat", "getters", "cycle", "fork", "diamond"}

InitHeap(sh) ==
  [n \in Nodes |-> [k \in Keys |->
     IF sh = "tree"
     THEN CASE n = "root" /\ k = "a" -> StoreVal("a")
            [] n = "root" /\ k = "x" -> Prim("0")
            [] n = "root" /\ k = TagSym -> Prim("0")
            [] n = "a" /\ k = "x" -> Prim("0")
            [] OTHER -> Undef
     ELSE IF sh = "nested"
     THEN CASE n = "root" /\ k = "a" -> StoreVal("a")
            [] n = "a" /\ k = "x" -> Prim("0")
            [] OTHER -> Undef
     ELSE IF sh = "flat"
     THEN CASE n = "root" /\ k = "x" -> Prim("0")
            [] n = "root" /\ k = "y" -> Prim("0")
            [] OTHER -> Undef
     ELSE IF sh = "cycle"
     THEN CASE n = "root" /\ k = "a" -> StoreVal("a")
            [] n = "a" /\ k = "b" -> StoreVal("root")
            [] n = "a" /\ k = "x" -> Prim("0")
            [] OTHER -> Undef
     ELSE IF sh = "fork"
     THEN CASE n = "root" /\ k \in {"a", "b"} -> StoreVal(k)
            [] n \in {"a", "b"} /\ k \in {"x", "y"} -> Prim("0")
            [] OTHER -> Undef
     ELSE IF sh = "getters"
     THEN CASE n = "root" /\ k = "x" -> Prim("0")
            [] n = "root" /\ k = TagSym -> Prim("0")
            [] n = "root" /\ k = "b" -> GetterVal("count")
            [] n = "root" /\ k = "y" -> GetterVal("doubled")
            [] n = "root" /\ k = "a" -> GetterVal("label")
            [] OTHER -> Undef
     ELSE CASE n = "root" /\ k = "a" -> StoreVal("a")
            [] n = "root" /\ k = "b" -> StoreVal("b")
            [] n = "a" /\ k = "b" -> StoreVal("b")
            [] n = "b" /\ k = "x" -> Prim("0")
            [] OTHER -> Undef]]

\* The keys the behaviours read on each store: those the graph starts with.
ReadKeys(sh, n) == {k \in Keys : InitHeap(sh)[n][k].kind # "undef"}

\* What the behaviours assign to a key, and the keys they delete.
WriteVals(sh, n, k) ==
  IF sh = "tree"
  THEN CASE n = "root" /\ k = "x" -> {Prim("0"), ObjVal("o")}
         [] n = "root" /\ k = TagSym -> {Prim("0"), Prim("1")}
         [] n = "a" /\ k = "x" -> {Prim("0"), Prim("1")}
         [] OTHER -> {}
  ELSE IF sh = "nested"
  THEN CASE n = "a" /\ k = "x" -> {Prim("0"), Prim("1")}
         [] OTHER -> {}
  ELSE IF sh = "flat"
  THEN CASE n = "root" /\ k = "x" -> {Prim("1")}
         [] n = "root" /\ k = "y" -> {Prim("1")}
         [] OTHER -> {}
  ELSE IF sh = "cycle"
  THEN CASE n = "a" /\ k = "x" -> {Prim("1")}
         [] OTHER -> {}
  ELSE IF sh = "getters"
  THEN CASE n = "root" /\ k = "x" -> {Prim("1")}
         [] n = "root" /\ k = TagSym -> {Prim("1")}
         [] OTHER -> {}
  ELSE CASE n = "b" /\ k = "x" -> {Prim("0"), ObjVal("o")}
         [] OTHER -> {}

Deletable(sh) ==
  IF sh = "tree" THEN {<<"root", "x">>, <<"a", "x">>}
  ELSE IF sh = "nested" THEN {<<"a", "x">>}
  ELSE IF sh = "flat" THEN {<<"root", "y">>}
  ELSE IF sh = "getters" THEN {<<"root", "x">>}
  ELSE IF sh = "cycle" THEN {<<"a", "x">>}
  ELSE {<<"a", "b">>}

VARIABLES
  heap,      \* [Nodes -> [Keys -> value]]: the stores and their properties
  pending,   \* [Admins -> [Nodes -> Seq(op)]]: ops queued for each subscription
  adm,       \* [Admins -> UseStoreAdmin]
  writes,    \* store mutations the behaviour may still make
  renders,   \* [Admins -> Nat]: useStore calls each component may still make
  mountArg,  \* [Admins -> value]: what useStore was first called with
  active,    \* the components that may render: not, or not yet, unmounted
  shape,     \* the graph of stores the behaviour starts with
  \* History of the current cycle (since the coordinator's last beginRender):
  reads,     \* [Admins -> [Nodes -> keys read through a view]]
  written,   \* [Admins -> [Nodes -> keys a notification reported written]]
  struct,    \* [Admins -> [Nodes -> a key was reported added or deleted]]
  enums,     \* [Admins -> [Nodes -> keys were enumerated or probed]]
  via,       \* [Admins -> [Nodes -> stores whose view returned its view]]
  due,       \* [Admins -> a read-then-written key was reported, no pull yet]
  \* A state made by proxyWithClass and its snapshots:
  target,    \* the state: where its doubled accessor is defined, count, version
  snapCache, \* <<>> or <<version, snapshot>>: snapCache.get(target)
  snaps,     \* the snapshot objects created, in order
  getter,    \* [Getters -> Nat]: how often each getter was invoked
  result,    \* outcome of the last call: thrown, and what it returned
  \* The first variant of useStore (react/utils/useStore.ts):
  storeRef   \* its StoreRef: stats in Map order, proxyCache, proxy, flags

hist == <<reads, written, struct, enums, via, due>>
vanilla == <<target, snapCache, snaps, getter, result>>
useStoreVars ==
  <<heap, pending, adm, writes, renders, mountArg, active, shape, hist>>
vars == <<heap, pending, adm, writes, renders, mountArg, active, shape, hist,
          vanilla, storeRef>>

\* ------------------------------------------------------------- StoreStats
\* (subscribed: the callback is among the store's listeners; unsub removes it.
\* subs is history, not a field of the class: the subscribe calls the
\* coordinator has made for the store.)
NoStats ==
  [exists |-> FALSE, accesses |-> {}, changes |-> {}, keysChange |-> FALSE,
   parents |-> <<>>, subscribed |-> FALSE, subs |-> 0]

NewStoreStats(parents) ==
  [NoStats EXCEPT !.exists = TRUE, !.parents = parents, !.subscribed = TRUE,
                  !.subs = 1]

\* stats.unsub(), for the StoreStats of n.
Unsub(A, n) == [A EXCEPT !.stats[n].subscribed = FALSE]

\* A store counts as dirty as soon as one of its keys was read.
HasDirtyReadOnAccess(s) == s.accesses # {}

HasDirtyRead(s) ==
  \/ s.keysChange /\ s.accesses # {}
  \/ \E key \in s.accesses : key \in s.changes

\* ---------------------------------------------------------- UseStoreAdmin
\* (lastDirty is history, not a field of the class: the stores the last run
\* of resetDirtyProxies found dirty.)
NoAdmin ==
  [live |-> FALSE, store |-> Undef, onStoreChange |-> "noop",
   stats |-> [n \in Nodes |-> NoStats],
   proxyCache |-> [n \in Nodes |-> 0],
   made |-> [n \in Nodes |-> 0],
   hasNewAccess |-> FALSE, hasNewChange |-> FALSE, hasAnyChange |-> FALSE,
   lastDirty |-> {}]

NewUseStoreAdmin(store) == [NoAdmin EXCEPT !.live = TRUE, !.store = store]

BeginRender(A) ==
  [A EXCEPT !.hasNewChange = FALSE,
            !.hasNewAccess = FALSE,
            !.stats = [n \in Nodes |->
               IF A.stats[n].exists
               THEN [A.stats[n] EXCEPT !.accesses = {}, !.changes = {},
                                       !.keysChange = FALSE]
               ELSE A.stats[n]]]

DirtyStores(A) == {n \in Nodes : A.stats[n].exists /\ HasDirtyRead(A.stats[n])}

\* A reset that drops the view of the dirty store alone.
ResetDirtyProxiesSelfOnly(A) ==
  [A EXCEPT !.proxyCache =
     [n \in Nodes |-> IF n \in DirtyStores(A) THEN 0 ELSE @[n]]]

\* A reset that empties the cache as soon as one store is dirty.
ResetDirtyProxiesWholesale(A) ==
  IF DirtyStores(A) = {} THEN A
  ELSE [A EXCEPT !.proxyCache = [n \in Nodes |-> 0]]

ResetDirtyProxies(A) ==
  LET evict == UNION {Range(A.stats[n].parents) \cup {n} : n \in DirtyStores(A)}
  IN [A EXCEPT !.proxyCache = [n \in Nodes |-> IF n \in evict THEN 0 ELSE @[n]]]

\* A getStoreStats that makes a StoreStats, and subscribes, whenever asked.
GetStoreStatsFresh(A, parents, n) ==
  [A EXCEPT !.stats[n] =
     [NewStoreStats(parents) EXCEPT !.subs = A.stats[n].subs + 1]]

GetStoreStats(A, parents, n) ==
  IF A.stats[n].exists THEN A
  ELSE [A EXCEPT !.stats[n] = NewStoreStats(parents)]

\* A getOrCreateProxy that wraps the store anew whenever it is asked.
GetOrCreateProxyUncached(A, c, n, parents) ==
  LET A1 == [GetStoreStats(A, parents, n) EXCEPT
               !.made[n] = @ + 1, !.proxyCache[n] = A.made[n] + 1]
  IN [adm |-> A1, val |-> ViewVal(c, n, A1.proxyCache[n])]

\* new Proxy(...): a view of n with an identity no earlier view of n has.
NewProxy(A, n) ==
  [A EXCEPT !.made[n] = @ + 1, !.proxyCache[n] = A.made[n] + 1]

GetOrCreateProxy(A, c, n, parents) ==
  IF A.proxyCache[n] # 0
  THEN [adm |-> A, val |-> ViewVal(c, n, A.proxyCache[n])]
  ELSE LET A1 == NewProxy(GetStoreStats(A, parents, n), n)
       IN [adm |-> A1, val |-> ViewVal(c, n, A1.proxyCache[n])]

\* A get trap that hands every value back as the store holds it.
ProxyGetUnwrapped(A, c, n, prop, H) ==
  IF prop = GET_STORE_SYMBOL
  THEN [adm |-> A, val |-> StoreVal(n)]
  ELSE [adm |-> [A EXCEPT !.stats[n].accesses = @ \cup {prop},
                          !.hasNewAccess = TRUE],
        val |-> H[n][prop]]

\* A get trap that records the lookup of the store symbol like any other.
ProxyGetRecordingAll(A, c, n, prop, H) ==
  LET A1 == [A EXCEPT !.stats[n].accesses = @ \cup {prop},
                      !.hasNewAccess = TRUE]
  IN IF prop = GET_STORE_SYMBOL
     THEN [adm |-> A1, val |-> StoreVal(n)]
     ELSE IF isStore(H[n][prop])
     THEN GetOrCreateProxy(A1, c, H[n][prop].ref,
                           Append(A1.stats[n].parents, n))
     ELSE [adm |-> A1, val |-> H[n][prop]]

\* A get trap whose record of a key is undone by the next read of the key.
ProxyGetToggling(A, c, n, prop, H) ==
  IF prop = GET_STORE_SYMBOL
  THEN [adm |-> A, val |-> StoreVal(n)]
  ELSE LET A1 == [A EXCEPT !.stats[n].accesses =
                              IF prop \in @ THEN @ \ {prop} ELSE @ \cup {prop},
                           !.hasNewAccess = TRUE]
           value == H[n][prop]
       IN IF isStore(value)
          THEN GetOrCreateProxy(A1, c, value.ref,
                                Append(A1.stats[n].parents, n))
          ELSE [adm |-> A1, val |-> value]

RECURSIVE ProxyGet(_, _, _, _, _)
RECURSIVE ReflectGet(_, _, _, _, _)

\* The get trap of a view of store n.
ProxyGet(A, c, n, prop, H) ==
  IF prop = GET_STORE_SYMBOL
  THEN [adm |-> A, val |-> StoreVal(n)]
  ELSE LET A1 == [A EXCEPT !.stats[n].accesses = @ \cup {prop},
                           !.hasNewAccess = TRUE]
           got == ReflectGet(A1, c, n, prop, H)
           value == got.val
       IN IF isStore(value)
          THEN GetOrCreateProxy(got.adm, c, value.ref,
                                Append(got.adm.stats[n].parents, n))
          ELSE [adm |-> got.adm, val |-> value]

\* The getter's reads of this, one after the other, through the receiver.
RECURSIVE ThisGets(_, _, _, _, _, _)
ThisGets(A, c, n, props, H, last) ==
  IF props = <<>> THEN [adm |-> A, val |-> last]
  ELSE LET r == ProxyGet(A, c, n, Head(props), H)
       IN ThisGets(r.adm, c, n, Tail(props), H, r.val)

\* Reflect.get(target, prop, receiver), the receiver being the view of n: a
\* data property yields its value, an accessor runs its getter with the view
\* as this and yields what the getter computes from what it read.
ReflectGet(A, c, n, prop, H) ==
  IF H[n][prop].kind = "getter"
  THEN ThisGets(A, c, n, GetterBody(H[n][prop].ref), H, Undef)
  ELSE [adm |-> A, val |-> H[n][prop]]

GetSnapshot(A, c) ==
  LET A1 == IF A.hasNewChange \/ (A.hasNewAccess /\ A.hasAnyChange)
            THEN [ResetDirtyProxies(A) EXCEPT !.hasNewChange = FALSE,
                                              !.hasNewAccess = FALSE,
                                              !.lastDirty = DirtyStores(A)]
            ELSE A
  IN GetOrCreateProxy(A1, c, A1.store.ref, <<>>)

\* onStoreChange(): nothing before the subscribe effect ran; afterwards the
\* external-store hook, which pulls getSnapshot at once.
OnStoreChange(A, c) ==
  IF A.onStoreChange = "handleStoreChange" THEN GetSnapshot(A, c).adm ELSE A

\* A callback that records the op and leaves hasNewChange as it is.
RecordOpUnflagged(A, n, op) ==
  LET A1 == IF Len(op.path) = 1
            THEN [A EXCEPT !.stats[n].changes = @ \cup {StringOf(op.path[1])},
                           !.stats[n].keysChange =
                              @ \/ (op.op = "set" /\ op.created)
                                \/ op.op = "delete"]
            ELSE A
  IN [A1 EXCEPT !.hasAnyChange = TRUE]

\* What the callback StoreStats subscribed with records of one op.
RecordOp(A, n, op) ==
  LET A1 == IF Len(op.path) = 1
            THEN [A EXCEPT !.stats[n].changes = @ \cup {StringOf(op.path[1])},
                           !.stats[n].keysChange =
                              @ \/ (op.op = "set" /\ op.created)
                                \/ op.op = "delete"]
            ELSE A
  IN [A1 EXCEPT !.hasNewChange = TRUE, !.hasAnyChange = TRUE]

\* One turn of the callback's loop: the op is recorded, onStoreChange called.
ApplyOp(A, c, n, op) == OnStoreChange(RecordOp(A, n, op), c)

RECURSIVE SubscribeCallback(_, _, _, _)
SubscribeCallback(A, c, n, ops) ==
  IF ops = <<>> THEN A
  ELSE SubscribeCallback(ApplyOp(A, c, n, Head(ops)), c, n, Tail(ops))

\* ---------------------------------------------------------------- getStore
\* obj[GET_STORE_SYMBOL]: a view answers with its store; nothing else has
\* the key.
Lookup(v, prop, As, H) ==
  IF v.kind = "view" THEN ProxyGet(As[v.adm], v.adm, v.ref, prop, H).val
  ELSE IF v.kind = "store" /\ prop \in Keys THEN H[v.ref][prop]
  ELSE Undef

\* A getStore that hands its argument back.
getStoreIdentity(obj, As, H) == obj

getStore(obj, As, H) ==
  LET inner == Lookup(obj, GET_STORE_SYMBOL, As, H)
  IN IF inner.kind # "undef" THEN inner ELSE obj

\* The view's handler defines get only: key enumeration, `in` and
\* descriptor probes go to the store and leave the coordinator as it is.
ProxyOwnKeys(A, n, H) ==
  [adm |-> A, val |-> {k \in Keys : H[n][k].kind # "undef"}]

ProxyHas(A, n, prop, H) == [adm |-> A, val |-> H[n][prop].kind # "undef"]

ProxyGetOwnPropertyDescriptor(A, n, prop, H) == [adm |-> A, val |-> H[n][prop]]

\* --------------------------------------------------- the store's notifying
Edges(H, m) == {k \in Keys : H[m][k].kind = "store"}

\* A path of keys from m to n, of at most d keys; <<>> if there is none.
RECURSIVE PathTo(_, _, _, _)
PathTo(H, m, n, d) ==
  IF d = 0 THEN <<>>
  ELSE IF \E k \in Edges(H, m) : H[m][k].ref = n
  THEN <<CHOOSE k \in Edges(H, m) : H[m][k].ref = n>>
  ELSE LET thru == {k \in Edges(H, m) : PathTo(H, H[m][k].ref, n, d - 1) # <<>>}
       IN IF thru = {} THEN <<>>
          ELSE LET k == CHOOSE k \in thru : TRUE
               IN <<k>> \o PathTo(H, H[m][k].ref, n, d - 1)

\* The path under which a subscriber of m hears of a change of n's key k.
OpPath(H, m, n, k) ==
  IF m = n THEN <<k>>
  ELSE LET p == PathTo(H, m, n, Cardinality(Nodes) - 1)
       IN IF p = <<>> THEN <<>> ELSE Append(p, k)

\* Every subscription whose store is n, or reaches n, gets the op queued.
\* (node and key name the store and key that were written; rb notes, for the
\* history only, that c had read the key in this cycle.)
Enqueue(P, A, H, n, k, kind, created) ==
  [c \in Admins |-> [m \in Nodes |->
     IF A[c].stats[m].exists /\ A[c].stats[m].subscribed
        /\ OpPath(H, m, n, k) # <<>>
     THEN Append(P[c][m],
                 [op |-> kind, path |-> OpPath(H, m, n, k), created |-> created,
                  node |-> n, key |-> k,
                  rb |-> m = n /\ k \in reads[c][n]])
     ELSE P[c][m]]]

\* store.k = v, on the store itself: the key holds v, the subscribers hear.
StoreSet(H, P, As, n, k, v) ==
  [heap |-> [H EXCEPT ![n][k] = v],
   pending |-> Enqueue(P, As, H, n, k, "set", H[n][k].kind = "undef")]

\* A view that rejects assignments: nothing is written, nobody hears.
ProxySetRejecting(As, c, n, prop, v, H, P) ==
  [adm |-> As[c], heap |-> H, pending |-> P]

\* view.prop = v: the handler of a view has a get trap and no other, so the
\* assignment is the store's, and the coordinator is left as it was.
ProxySet(As, c, n, prop, v, H, P) ==
  [adm |-> As[c],
   heap |-> StoreSet(H, P, As, n, prop, v).heap,
   pending |-> StoreSet(H, P, As, n, prop, v).pending]

\* ++count
Inc(v) == IF v = Prim("0") THEN Prim("1") ELSE Prim("2")

\* ----------------------------------------------------------------- actions
\* ref.current === null
\* (read is history, not a field of StoreRef: the store and key of every read
\* made since the last call of useStore.)
NoStoreRef ==
  [live |-> FALSE, stats |-> <<>>, proxyCache |-> {}, proxy |-> 0,
   hasNewAccess |-> FALSE, hasNewChange |-> FALSE, hasAnyChange |-> FALSE,
   read |-> {}]

\* No state of proxyWithClass in sight, and no first-variant useStore.
NoVanilla ==
  /\ storeRef = NoStoreRef
  /\ target = [own |-> FALSE, protos |-> 0, setter |-> FALSE,
               count |-> 0, version |-> 0]
  /\ snapCache = <<>>
  /\ snaps = <<>>
  /\ getter = [g \in {"own", "p1", "p2"} |-> 0]
  /\ result = [thrown |-> FALSE, snap |-> 0, value |-> 0]

InitUseStore ==
  /\ heap = InitHeap(shape)
  /\ pending = [c \in Admins |-> [n \in Nodes |-> <<>>]]
  /\ adm = [c \in Admins |-> NoAdmin]
  /\ mountArg = [c \in Admins |-> Undef]
  /\ reads = [c \in Admins |-> [n \in Nodes |-> {}]]
  /\ written = [c \in Admins |-> [n \in Nodes |-> {}]]
  /\ struct = [c \in Admins |-> [n \in Nodes |-> FALSE]]
  /\ enums = [c \in Admins |-> [n \in Nodes |-> FALSE]]
  /\ via = [c \in Admins |-> [n \in Nodes |-> {}]]
  /\ due = [c \in Admins |-> FALSE]

InitCommon ==
  /\ NoVanilla
  /\ InitUseStore

\* One component, observing the root of the tree.
Init ==
  /\ shape = "tree" /\ active = {1} /\ InitCommon
  /\ writes = MaxWrites /\ renders = [c \in Admins |-> MaxRenders]

\* One component, observing a store with computed getters.
InitGetter ==
  /\ shape = "getters" /\ active = {1} /\ InitCommon
  /\ writes = MaxGetterWrites /\ renders = [c \in Admins |-> MaxGetterRenders]

\* One component, observing one of two stores that hold each other.
InitCycle ==
  /\ shape = "cycle" /\ active = {1} /\ InitCommon
  /\ writes = MaxCycleWrites /\ renders = [c \in Admins |-> MaxCycleRenders]

\* One component that increments the counters it shows, through its views.
InitViewWrite ==
  /\ shape = "flat" /\ active = {1} /\ InitCommon
  /\ writes = MaxViewWrites /\ renders = [c \in Admins |-> MaxViewRenders]

\* One component that unmounts, observing the root of the tree.
InitUnmount ==
  /\ shape = "tree" /\ active = {1} /\ InitCommon
  /\ writes = MaxUnmountWrites
  /\ renders = [c \in Admins |-> MaxUnmountRenders]

\* One component, observing the root of the diamond.
InitDiamond ==
  /\ shape = "diamond" /\ active = {1} /\ InitCommon
  /\ writes = MaxWrites /\ renders = [c \in Admins |-> MaxRenders]

\* A parent component and a child that calls useStore itself.
InitChild ==
  /\ shape = "nested" /\ active = {1, 2} /\ InitCommon
  /\ writes = MaxChildWrites /\ renders = [c \in Admins |-> MaxChildRenders]

\* Two components that observe the same store.
InitPair ==
  /\ shape = "flat" /\ active = {1, 2} /\ InitCommon
  /\ writes = MaxPairWrites /\ renders = [c \in Admins |-> MaxPairRenders]

\* One component and a single cycle, on the diamond.
InitShort ==
  /\ shape = "diamond" /\ active = {1} /\ InitCommon
  /\ writes = MaxShortWrites /\ renders = [c \in Admins |-> MaxShortRenders]

\* One component that also enumerates the keys of its views, on the tree.
InitEnum ==
  /\ shape = "tree" /\ active = {1} /\ InitCommon
  /\ writes = MaxEnumWrites /\ renders = [c \in Admins |-> MaxEnumRenders]

WithinBounds(A) == \A n \in Nodes : A.made[n] <= MaxProxies

\* The store the second component observes.
SecondStore(sh) == IF sh = "flat" THEN "root" ELSE "a"

\* What a component may pass to useStore: a store, or a view it was handed.
MountArgs(c) ==
  IF c = 1 THEN {StoreVal("root")}
  ELSE {StoreVal(SecondStore(shape))}
       \cup {ViewVal(1, n, adm[1].proxyCache[n]) :
               n \in {m \in {SecondStore(shape)} : adm[1].proxyCache[m] # 0}}

\* A render of a component: useStore(arg), for some arg it may pass.
UseStore(c) ==
  /\ c \in active
  /\ renders[c] > 0
  /\ \E arg \in MountArgs(c) :
       LET store == getStore(arg, adm, heap)
           A0 == IF adm[c].live THEN adm[c] ELSE NewUseStoreAdmin(store)
           A1 == GetSnapshot(BeginRender(A0), c).adm
       IN /\ WithinBounds(A1)
          /\ adm' = [adm EXCEPT ![c] = A1]
          /\ mountArg' = [mountArg EXCEPT ![c] = IF adm[c].live THEN @ ELSE arg]
  /\ renders' = [renders EXCEPT ![c] = @ - 1]
  /\ pending' = [pending EXCEPT ![c] =
        [n \in Nodes |-> [i \in 1..Len(pending[c][n]) |->
           [pending[c][n][i] EXCEPT !.rb = FALSE]]]]
  /\ reads' = [reads EXCEPT ![c] = [n \in Nodes |-> {}]]
  /\ written' = [written EXCEPT ![c] = [n \in Nodes |-> {}]]
  /\ struct' = [struct EXCEPT ![c] = [n \in Nodes |-> FALSE]]
  /\ enums' = [enums EXCEPT ![c] = [n \in Nodes |-> FALSE]]
  /\ via' = [via EXCEPT ![c] = [n \in Nodes |-> {}]]
  /\ due' = [due EXCEPT ![c] = FALSE]
  /\ UNCHANGED <<vanilla, storeRef, heap, writes, active, shape>>

\* The subscribe step of the external-store hook.
Subscribe(c) ==
  /\ c \in active
  /\ adm[c].live
  /\ adm[c].onStoreChange = "noop"
  /\ adm' = [adm EXCEPT ![c].onStoreChange = "handleStoreChange"]
  /\ UNCHANGED <<vanilla, storeRef, heap, pending, writes, renders, mountArg, active, shape, hist>>

\* A pull of the current value by the external-store hook.
Pull(c) ==
  /\ c \in active
  /\ adm[c].live
  /\ LET A1 == GetSnapshot(adm[c], c).adm
     IN /\ WithinBounds(A1)
        /\ adm' = [adm EXCEPT ![c] = A1]
  /\ due' = [due EXCEPT ![c] = FALSE]
  /\ UNCHANGED <<vanilla, storeRef, heap, pending, writes, renders, mountArg, active, shape,
                 reads, written, struct, enums, via>>

\* Object.values(obj): the values of obj's own enumerable string-keyed
\* properties.  The entries of a Map are not properties of the Map, so for
\* the stats Map there are none, however many entries it has.
ObjectValues(stats) == {n \in Nodes : FALSE /\ stats[n].exists}

\* The function the subscribe step returned:
\* () => Object.values(current.stats).forEach((s) => s.unsub())
RECURSIVE ForEachUnsub(_, _)
ForEachUnsub(A, ns) ==
  IF ns = {} THEN A
  ELSE LET n == CHOOSE m \in ns : TRUE
       IN ForEachUnsub(Unsub(A, n), ns \ {n})

Unsubscribed(A) == ForEachUnsub(A, ObjectValues(A.stats))

\* The component unmounts: the external-store hook calls the function the
\* subscribe step returned.  A listener that was removed is not called for
\* the ops still queued for it.
Unsubscribe(c) ==
  /\ c \in active
  /\ adm[c].onStoreChange = "handleStoreChange"
  /\ adm' = [adm EXCEPT ![c] = Unsubscribed(adm[c])]
  /\ pending' = [pending EXCEPT ![c] =
        [n \in Nodes |-> IF Unsubscribed(adm[c]).stats[n].subscribed
                         THEN pending[c][n] ELSE <<>>]]
  /\ active' = active \ {c}
  /\ UNCHANGED <<vanilla, storeRef, heap, writes, renders, mountArg, shape, hist>>

\* Every key of n a read of n's key k reads: k, and what its getter reads.
RECURSIVE ThisReads(_, _, _)
ThisReads(H, n, k) ==
  {k} \cup UNION {ThisReads(H, n, d) : d \in Range(GetterBody(H[n][k].ref))}

\* view.k, for a view of n that c handed out, while c is mounted.
Read(c, n, k) ==
  /\ k \in ReadKeys(shape, n)
  /\ c \in active
  /\ adm[c].live
  /\ adm[c].stats[n].exists
  /\ LET r == ProxyGet(adm[c], c, n, k, heap)
     IN /\ WithinBounds(r.adm)
        /\ adm' = [adm EXCEPT ![c] = r.adm]
        /\ via' = IF r.val.kind = "view"
                  THEN [via EXCEPT ![c][r.val.ref] = @ \cup {n}]
                  ELSE via
  /\ reads' = [reads EXCEPT ![c][n] = @ \cup ThisReads(heap, n, k)]
  /\ UNCHANGED <<vanilla, storeRef, heap, pending, writes, renders, mountArg, active, shape,
                 written, struct, enums, due>>

\* Object.keys(view), for a view of n that c handed out.
OwnKeys(c, n) ==
  /\ adm[c].live
  /\ adm[c].stats[n].exists
  /\ adm' = [adm EXCEPT ![c] = ProxyOwnKeys(adm[c], n, heap).adm]
  /\ enums' = [enums EXCEPT ![c][n] = TRUE]
  /\ UNCHANGED <<vanilla, storeRef, heap, pending, writes, renders, mountArg, active, shape,
                 reads, written, struct, via, due>>

\* k in view
Has(c, n, k) ==
  /\ k \in ReadKeys(shape, n)
  /\ adm[c].live
  /\ adm[c].stats[n].exists
  /\ adm' = [adm EXCEPT ![c] = ProxyHas(adm[c], n, k, heap).adm]
  /\ enums' = [enums EXCEPT ![c][n] = TRUE]
  /\ UNCHANGED <<vanilla, storeRef, heap, pending, writes, renders, mountArg, active, shape,
                 reads, written, struct, via, due>>

\* Object.getOwnPropertyDescriptor(view, k)
GetOwnPropertyDescriptor(c, n, k) ==
  /\ k \in ReadKeys(shape, n)
  /\ adm[c].live
  /\ adm[c].stats[n].exists
  /\ adm' = [adm EXCEPT ![c] =
                ProxyGetOwnPropertyDescriptor(adm[c], n, k, heap).adm]
  /\ enums' = [enums EXCEPT ![c][n] = TRUE]
  /\ UNCHANGED <<vanilla, storeRef, heap, pending, writes, renders, mountArg, active, shape,
                 reads, written, struct, via, due>>

\* ++view.k, for a view of n that c handed out: view.k is read, and one more
\* is assigned to view.k.
Increment(c, n, k) ==
  /\ writes > 0
  /\ k \in ReadKeys(shape, n)
  /\ c \in active
  /\ adm[c].live
  /\ adm[c].stats[n].exists
  /\ heap[n][k] \in {Prim("0"), Prim("1")}
  /\ LET r == ProxyGet(adm[c], c, n, k, heap)
         w == ProxySet([adm EXCEPT ![c] = r.adm], c, n, k, Inc(r.val),
                       heap, pending)
     IN /\ adm' = [adm EXCEPT ![c] = w.adm]
        /\ heap' = w.heap
        /\ pending' = [w.pending EXCEPT ![c][n] =
                         IF Len(@) > Len(pending[c][n])
                         THEN [@ EXCEPT ![Len(@)].rb = TRUE] ELSE @]
  /\ reads' = [reads EXCEPT ![c][n] = @ \cup ThisReads(heap, n, k)]
  /\ writes' = writes - 1
  /\ UNCHANGED <<vanilla, storeRef, renders, mountArg, active, shape,
                 written, struct, enums, via, due>>

\* store.k = v
Write(n, k, v) ==
  /\ writes > 0
  /\ v \in WriteVals(shape, n, k)
  /\ heap[n][k] # v
  /\ heap' = StoreSet(heap, pending, adm, n, k, v).heap
  /\ pending' = StoreSet(heap, pending, adm, n, k, v).pending
  /\ writes' = writes - 1
  /\ UNCHANGED <<vanilla, storeRef, adm, renders, mountArg, active, shape, hist>>

\* delete store.k
Delete(n, k) ==
  /\ writes > 0
  /\ <<n, k>> \in Deletable(shape)
  /\ heap[n][k].kind # "undef"
  /\ heap' = [heap EXCEPT ![n][k] = Undef]
  /\ pending' = Enqueue(pending, adm, heap, n, k, "delete", FALSE)
  /\ writes' = writes - 1
  /\ UNCHANGED <<vanilla, storeRef, adm, renders, mountArg, active, shape, hist>>

Direct(ops) == {i \in 1..Len(ops) : Len(ops[i].path) = 1}

\* The store delivers a subscription's queued batch to its callback.
Notify(c, n) ==
  /\ pending[c][n] # <<>>
  /\ LET ops == pending[c][n]
         A1 == SubscribeCallback(adm[c], c, n, ops)
     IN /\ WithinBounds(A1)
        /\ adm' = [adm EXCEPT ![c] = A1]
        /\ written' = [written EXCEPT ![c][n] =
                         @ \cup {ops[i].path[1] : i \in Direct(ops)}]
        /\ struct' = [struct EXCEPT ![c][n] =
                        @ \/ \E i \in Direct(ops) :
                                ops[i].op = "delete" \/ ops[i].created]
        /\ due' = [due EXCEPT ![c] =
                     adm[c].onStoreChange = "noop"
                     /\ (@ \/ \E i \in Direct(ops) : ops[i].rb)]
  /\ pending' = [pending EXCEPT ![c][n] = <<>>]
  /\ UNCHANGED <<vanilla, storeRef, heap, writes, renders, mountArg, active, shape,
                 reads, enums, via>>

Next ==
  \/ \E c \in Admins : UseStore(c)
  \/ \E c \in Admins : Subscribe(c)
  \/ \E c \in Admins : Pull(c)
  \/ \E c \in Admins, n \in Nodes, k \in Keys : Read(c, n, k)
  \/ \E n \in Nodes, k \in Keys, v \in Vals : Write(n, k, v)
  \/ \E n \in Nodes, k \in Keys : Delete(n, k)
  \/ \E c \in Admins, n \in Nodes : Notify(c, n)

\* A component that also enumerates and probes the keys of its views.
NextEnum ==
  \/ Next
  \/ \E c \in Admins, n \in Nodes : OwnKeys(c, n)
  \/ \E c \in Admins, n \in Nodes, k \in Keys : Has(c, n, k)
  \/ \E c \in Admins, n \in Nodes, k \in Keys : GetOwnPropertyDescriptor(c, n, k)

Spec == Init /\ [][Next]_vars

SpecDiamond == InitDiamond /\ [][Next]_vars

SpecChild == InitChild /\ [][Next]_vars

SpecEnum == InitEnum /\ [][NextEnum]_vars

SpecShort == InitShort /\ [][Next]_vars

SpecPair == InitPair /\ [][Next]_vars
SpecGetter == InitGetter /\ [][Next]_vars
SpecCycle == InitCycle /\ [][Next]_vars

\* A component whose event handlers write through the views it was handed;
\* nothing else writes.
NextViewWrite ==
  \/ \E c \in Admins : UseStore(c)
  \/ \E c \in Admins : Subscribe(c)
  \/ \E c \in Admins : Pull(c)
  \/ \E c \in Admins, n \in Nodes, k \in Keys : Read(c, n, k)
  \/ \E c \in Admins, n \in Nodes, k \in Keys : Increment(c, n, k)
  \/ \E c \in Admins, n \in Nodes : Notify(c, n)

SpecViewWrite == InitViewWrite /\ [][NextViewWrite]_vars

\* ------------------------------------------- the first variant of useStore
\* stats is a Map: its entries are kept, and iterated, in insertion order.
HasStats(R, store) == \E i \in 1..Len(R.stats) : R.stats[i].store = store

\* let s = stats.get(store); if (!s) { s = new StoreStats(); stats.set(...) }
EnsureStats(R, store) ==
  IF HasStats(R, store) THEN R
  ELSE [R EXCEPT !.stats =
          Append(@, [store |-> store, accesses |-> {}, changes |-> {}])]

IndexOf(R, store) == CHOOSE i \in 1..Len(R.stats) : R.stats[i].store = store

onAccess(R, store, prop) ==
  LET R1 == EnsureStats(R, store)
      i == IndexOf(R1, store)
  IN IF prop \in R1.stats[i].accesses THEN R1
     ELSE [R1 EXCEPT !.stats[i].accesses = @ \cup {prop},
                     !.hasNewAccess = TRUE]

\* The subscribe callback, for one op: the store that owns the key, and the
\* last element of the path.
OldRecordOp(R, op) ==
  LET R1 == EnsureStats(R, op.node)
      i == IndexOf(R1, op.node)
  IN [R1 EXCEPT !.stats[i].changes = @ \cup {op.path[Len(op.path)]},
                !.hasNewChange = TRUE, !.hasAnyChange = TRUE]

RECURSIVE OldRecordOps(_, _)
OldRecordOps(R, ops) ==
  IF ops = <<>> THEN R ELSE OldRecordOps(OldRecordOp(R, Head(ops)), Tail(ops))

\* A getDirtyStores that goes on to the next store after a dirty one.
RECURSIVE getDirtyStoresAll(_)
getDirtyStoresAll(stats) ==
  IF stats = <<>> THEN <<>>
  ELSE IF Head(stats).accesses \cap Head(stats).changes # {}
  THEN <<Head(stats).store>> \o getDirtyStoresAll(Tail(stats))
  ELSE getDirtyStoresAll(Tail(stats))

\* getDirtyStores: "break nextStore" leaves the loop over the stores, the
\* labelled one, once a store was pushed.
RECURSIVE getDirtyStores(_)
getDirtyStores(stats) ==
  IF stats = <<>> THEN <<>>
  ELSE IF Head(stats).accesses \cap Head(stats).changes # {}
  THEN <<Head(stats).store>>
  ELSE getDirtyStores(Tail(stats))

\* getSnapshot of the first variant.
OldGetSnapshot(R) ==
  IF R.hasNewChange \/ (R.hasNewAccess /\ R.hasAnyChange)
  THEN LET dirtyStores == getDirtyStores(R.stats)
           R1 == IF Len(dirtyStores) > 0
                 THEN [R EXCEPT !.proxyCache =
                                   (@ \ Range(dirtyStores)) \cup {"root"},
                                !.proxy = @ + 1]
                 ELSE R
       IN [R1 EXCEPT !.hasNewChange = FALSE, !.hasNewAccess = FALSE]
  ELSE R

\* useStore(store): the StoreRef is made on the first call; every call
\* resets hasNewChange, and the external-store hook pulls getSnapshot.
OldUseStore ==
  /\ LET R0 == IF storeRef.live THEN storeRef
               ELSE [NoStoreRef EXCEPT !.live = TRUE, !.proxyCache = {"root"},
                                       !.proxy = 1]
     IN storeRef' = OldGetSnapshot([R0 EXCEPT !.hasNewChange = FALSE,
                                             !.read = {}])
  /\ renders[1] > 0
  /\ renders' = [renders EXCEPT ![1] = @ - 1]
  /\ UNCHANGED <<heap, pending, adm, writes, mountArg, active, shape, hist,
                 vanilla>>

\* proxy.k, for the proxy of n that is cached: onAccess is called, and a
\* store that is read is wrapped and cached.
OldRead(n, k) ==
  /\ storeRef.live
  /\ n \in storeRef.proxyCache
  /\ k \in ReadKeys(shape, n)
  /\ storeRef' = [onAccess(storeRef, n, k) EXCEPT
                    !.proxyCache = IF isStore(heap[n][k])
                                   THEN @ \cup {heap[n][k].ref} ELSE @,
                    !.read = @ \cup {<<n, k>>}]
  /\ UNCHANGED <<useStoreVars, vanilla>>

\* The batches a notification hands over: one or two sets of keys of a, b.
OldOps ==
  {[op |-> "set", path |-> <<n, k>>, node |-> n] :
     n \in {"a", "b"}, k \in {"x", "y"}}

OldBatches ==
  {<<o>> : o \in OldOps}
    \cup {<<o[1], o[2]>> : o \in {p \in OldOps \X OldOps : p[1] # p[2]}}

\* The store notifies: the callback records every op of the batch, then
\* calls the hook's callback, which pulls getSnapshot.
OldNotify(ops) ==
  /\ storeRef.live
  /\ OldGetSnapshot(OldRecordOps(storeRef, ops)).proxy <= MaxRootProxies
  /\ storeRef' = OldGetSnapshot(OldRecordOps(storeRef, ops))
  /\ UNCHANGED <<useStoreVars, vanilla>>

InitOld ==
  /\ shape = "fork" /\ active = {1} /\ InitCommon
  /\ writes = 0 /\ renders = [c \in Admins |-> IF c = 1 THEN MaxRenders ELSE 0]

NextOld ==
  \/ OldUseStore
  \/ \E n \in Nodes, k \in Keys : OldRead(n, k)
  \/ \E ops \in OldBatches : OldNotify(ops)

SpecOld == InitOld /\ [][NextOld]_vars

\* ------------------------------------------------- proxyWithClass snapshots
\* The state has a data property count and an accessor doubled, defined on
\* the state itself (own), on protos levels of its prototype chain, or both;
\* the accessors of the prototypes have a setter, or only a getter.
Getters == {"own", "p1", "p2"}

Layouts ==
  {l \in [own : BOOLEAN, protos : 0..2, setter : BOOLEAN] :
     /\ l.own \/ l.protos > 0
     /\ l.protos = 0 => l.setter}

GettersOf(T) ==
  {g \in Getters : \/ g = "own" /\ T.own
                   \/ g = "p1" /\ T.protos >= 1
                   \/ g = "p2" /\ T.protos >= 2}

\* get doubled() { getter++; return this.count * 2 }
Doubled(count) == count * 2
\* set doubled(v) { this.count = v / 2 }
Halved(v) == v \div 2

\* Reflect.ownKeys(target)
OwnKeysOf(T) == IF T.own THEN <<"count", "doubled">> ELSE <<"count">>

\* One getter key for every prototype level that defines it.
findPrototypeGetters(T) == [i \in 1..T.protos |-> "doubled"]

\* A snapshot object under construction, the getter counts, and thrown.
\* (props: the own data properties; fixed: those made by defineProperty,
\* neither writable nor configurable; of: the count of the state when the
\* object was made, and handed: the caller got it; both for history.)
NewSnap(T) ==
  [props |-> <<>>, fixed |-> {}, frozen |-> FALSE, handed |-> FALSE,
   of |-> T.count]

HasOwn(sn, key) == \E i \in 1..Len(sn.props) : sn.props[i].key = key

ValueOf(sn, key) ==
  (CHOOSE e \in Range(sn.props) : e.key = key).value

Define(sn, key, value) ==
  IF HasOwn(sn, key)
  THEN [sn EXCEPT !.props =
          [i \in 1..Len(sn.props) |->
             IF sn.props[i].key = key
             THEN [key |-> key, value |-> value] ELSE sn.props[i]]]
  ELSE [sn EXCEPT !.props = Append(@, [key |-> key, value |-> value])]

\* getValue(key): Reflect.get(target, key), which for doubled invokes the
\* accessor found first, the state's own or the nearest prototype's.
getValue(T, G, key) ==
  IF key = "count" THEN [getter |-> G, value |-> T.count]
  ELSE LET g == IF T.own THEN "own" ELSE "p1"
       IN [getter |-> [G EXCEPT ![g] = @ + 1], value |-> Doubled(T.count)]

\* obj[key] = value, for an object whose prototype is the state's: a frozen
\* object and a fixed property reject it; a key the object does not have
\* goes to the accessor of the prototype, whose setter assigns this.count,
\* and which throws if it has no setter.
RECURSIVE Assign(_, _, _, _)
Assign(T, sn, key, value) ==
  IF sn.frozen \/ key \in sn.fixed
  THEN [snap |-> sn, thrown |-> TRUE]
  ELSE IF HasOwn(sn, key)
  THEN [snap |-> Define(sn, key, value), thrown |-> FALSE]
  ELSE IF key = "doubled" /\ T.protos > 0
  THEN IF T.setter THEN Assign(T, sn, "count", Halved(value))
       ELSE [snap |-> sn, thrown |-> TRUE]
  ELSE [snap |-> Define(sn, key, value), thrown |-> FALSE]

\* Object.defineProperty(snap, key, { value })
DefineProperty(sn, key, value) ==
  IF sn.frozen \/ (key \in sn.fixed /\ ValueOf(sn, key) # value)
  THEN [snap |-> sn, thrown |-> TRUE]
  ELSE [snap |-> [Define(sn, key, value) EXCEPT !.fixed = @ \cup {key}],
        thrown |-> FALSE]

\* The loop over Reflect.ownKeys(target): snap[key] = getValue(key).
RECURSIVE CopyOwnKeys(_, _, _)
CopyOwnKeys(T, L, keys) ==
  IF keys = <<>> \/ L.thrown THEN L
  ELSE LET v == getValue(T, L.getter, Head(keys))
           a == Assign(T, L.snap, Head(keys), v.value)
       IN CopyOwnKeys(T, [snap |-> a.snap, getter |-> v.getter,
                          thrown |-> a.thrown], Tail(keys))

\* The loop over protoGetters: defineProperty(snap, key, { value }).
RECURSIVE CacheProtoGetters(_, _, _)
CacheProtoGetters(T, L, keys) ==
  IF keys = <<>> \/ L.thrown THEN L
  ELSE LET v == getValue(T, L.getter, Head(keys))
           d == DefineProperty(L.snap, Head(keys), v.value)
       IN CacheProtoGetters(T, [snap |-> d.snap, getter |-> v.getter,
                                thrown |-> d.thrown], Tail(keys))

\* Object.freeze(snap)
Freeze(sn) == [sn EXCEPT !.frozen = TRUE]

\* The state, its cache, its snapshots and the getter counts, as one record.
World == [target |-> target, snapCache |-> snapCache, snaps |-> snaps,
          getter |-> getter, result |-> result]

\* A createSnapshot that builds a new object whatever the cache holds.
createSnapshotUncached(W) ==
  LET id == Len(W.snaps) + 1
      L2 == CacheProtoGetters(W.target,
              CopyOwnKeys(W.target,
                [snap |-> NewSnap(W.target), getter |-> W.getter,
                 thrown |-> FALSE], OwnKeysOf(W.target)),
              findPrototypeGetters(W.target))
  IN [W EXCEPT !.snapCache = <<W.target.version, id>>,
               !.snaps = Append(@, [Freeze(L2.snap) EXCEPT !.handed = TRUE]),
               !.getter = L2.getter,
               !.result = [thrown |-> FALSE, snap |-> id, value |-> 0]]

\* createSnapshot(target, version): the cached object if the version is the
\* cached one; else a new object, entered in the cache before it is filled,
\* frozen and returned only if nothing threw on the way.
createSnapshot(W) ==
  IF W.snapCache # <<>> /\ W.snapCache[1] = W.target.version
  THEN [W EXCEPT !.snaps[W.snapCache[2]].handed = TRUE,
                 !.result = [thrown |-> FALSE, snap |-> W.snapCache[2],
                             value |-> 0]]
  ELSE LET id == Len(W.snaps) + 1
           L1 == CopyOwnKeys(W.target,
                   [snap |-> NewSnap(W.target), getter |-> W.getter,
                    thrown |-> FALSE], OwnKeysOf(W.target))
           L2 == CacheProtoGetters(W.target, L1,
                                   findPrototypeGetters(W.target))
       IN [W EXCEPT
             !.snapCache = <<W.target.version, id>>,
             !.snaps = Append(@, IF L2.thrown THEN L2.snap
                                 ELSE [Freeze(L2.snap) EXCEPT !.handed = TRUE]),
             !.getter = L2.getter,
             !.result = [thrown |-> L2.thrown,
                         snap |-> IF L2.thrown THEN 0 ELSE id, value |-> 0]]

\* state.count = v: the version moves on unless v is the value held.
SetOnState(W, v) ==
  IF v = W.target.count THEN [W EXCEPT !.result.thrown = FALSE]
  ELSE [W EXCEPT !.target.count = v, !.target.version = @ + 1,
                 !.result.thrown = FALSE]

\* state.doubled: the getter is invoked, on every read.
GetOnState(W) ==
  LET v == getValue(W.target, W.getter, "doubled")
  IN [W EXCEPT !.getter = v.getter,
               !.result = [thrown |-> FALSE, snap |-> 0, value |-> v.value]]

\* snap[key], for the snapshot object id: an own property is read as it is;
\* a doubled that is not the object's own is the prototype's accessor, and
\* its getter is invoked with the object as this.
GetOnSnap(W, id, key) ==
  LET sn == W.snaps[id]
  IN IF HasOwn(sn, key)
     THEN [W EXCEPT !.result = [thrown |-> FALSE, snap |-> id,
                                value |-> ValueOf(sn, key)]]
     ELSE IF key = "doubled" /\ W.target.protos > 0
     THEN [W EXCEPT !.getter["p1"] = @ + 1,
                    !.result = [thrown |-> FALSE, snap |-> id,
                                value |-> IF HasOwn(sn, "count")
                                          THEN Doubled(ValueOf(sn, "count"))
                                          ELSE 0]]
     ELSE [W EXCEPT !.result = [thrown |-> FALSE, snap |-> id, value |-> 0]]

\* snap[key] = v, for the snapshot object id.
SetOnSnap(W, id, key, v) ==
  LET a == Assign(W.target, W.snaps[id], key, v)
  IN [W EXCEPT !.snaps[id] = a.snap,
               !.result = [thrown |-> a.thrown, snap |-> id, value |-> 0]]

Becomes(W) ==
  /\ target' = W.target
  /\ snapCache' = W.snapCache
  /\ snaps' = W.snaps
  /\ getter' = W.getter
  /\ result' = W.result
  /\ UNCHANGED <<useStoreVars, storeRef>>

WithinSnapBounds(W) ==
  /\ Len(W.snaps) <= MaxSnaps
  /\ W.target.version <= MaxVersion
  /\ \A g \in Getters : W.getter[g] <= MaxGetterCalls

\* snapshot(state)
Snapshot ==
  /\ WithinSnapBounds(createSnapshot(World))
  /\ Becomes(createSnapshot(World))

\* state.count = v
SetCount(v) ==
  /\ v \in 1..MaxCount
  /\ WithinSnapBounds(SetOnState(World, v))
  /\ Becomes(SetOnState(World, v))

\* state.doubled
GetDoubled ==
  /\ WithinSnapBounds(GetOnState(World))
  /\ Becomes(GetOnState(World))

\* snap.count, snap.doubled, for a snapshot the caller was handed
SnapGet(id, key) ==
  /\ id \in 1..Len(snaps)
  /\ snaps[id].handed
  /\ WithinSnapBounds(GetOnSnap(World, id, key))
  /\ Becomes(GetOnSnap(World, id, key))

\* snap.count = v, snap.doubled = v, for a snapshot the caller was handed
SnapSet(id, key, v) ==
  /\ id \in 1..Len(snaps)
  /\ snaps[id].handed
  /\ Becomes(SetOnSnap(World, id, key, v))

\* A state with a count of 1 and a doubled accessor, in any of the layouts.
InitSnapshot ==
  /\ shape = "flat" /\ active = {} /\ InitUseStore
  /\ writes = 0 /\ renders = [c \in Admins |-> 0]
  /\ \E l \in Layouts :
       target = [own |-> l.own, protos |-> l.protos, setter |-> l.setter,
                 count |-> 1, version |-> 1]
  /\ snapCache = <<>>
  /\ snaps = <<>>
  /\ getter = [g \in Getters |-> 0]
  /\ result = [thrown |-> FALSE, snap |-> 0, value |-> 0]
  /\ storeRef = NoStoreRef

NextSnapshot ==
  \/ Snapshot
  \/ GetDoubled
  \/ \E v \in 1..MaxCount : SetCount(v)
  \/ \E id \in 1..MaxSnaps, key \in {"count", "doubled"} : SnapGet(id, key)
  \/ \E id \in 1..MaxSnaps, key \in {"count", "doubled"}, v \in 1..(2 * MaxCount) :
       SnapSet(id, key, v)

SpecSnapshot == InitSnapshot /\ [][NextSnapshot]_vars

\* A component that is unmounted at some point.
NextUnmount ==
  \/ Next
  \/ \E c \in Admins : Unsubscribe(c)

SpecUnmount == InitUnmount /\ [][NextUnmount]_vars

\* ================================================================ properties
root(c) == adm[c].store.ref

Live == {c \in Admins : adm[c].live}

\* getSnapshot would compare reads and changes now.
Reconciles(A) == A.hasNewChange \/ (A.hasNewAccess /\ A.hasAnyChange)

\* ------------------------------------------------------------------- C9
\* C9: reading a key through a view returns the value itself when the value
\* is not a store (a primitive, a plain object), and a view of this
\* coordinator for the store when it is one.
C9_OnlyStoresAreWrapped ==
  \A c \in Live : \A n \in Nodes : \A k \in Keys :
    adm[c].stats[n].exists =>
      LET got == ProxyGet(adm[c], c, n, k, heap).val
      IN IF isStore(heap[n][k])
         THEN got.kind = "view" /\ got.ref = heap[n][k].ref /\ got.adm = c
         ELSE got = heap[n][k]

\* A plain object was stored under x of b, and x was read after that; stores
\* were read in the same cycle.
C9_Witness ==
  /\ heap["b"]["x"] = ObjVal("o")
  /\ 1 \in Live
  /\ "x" \in reads[1]["b"]
  /\ {"a", "b"} \subseteq reads[1]["root"]
  /\ "x" \notin written[1]["b"]
  /\ pending[1]["b"] = <<>>

\* ------------------------------------------------------------------ C10
CachedViews ==
  {ViewVal(e[1], e[2], adm[e[1]].proxyCache[e[2]]) :
     e \in {f \in Live \X Nodes : adm[f[1]].proxyCache[f[2]] # 0}}

\* C10: getStore of a view is the store the view is of, getStore of anything
\* else is the thing itself; a coordinator made from another coordinator's
\* view tracks the store behind that view, hands out its own views, and
\* records exactly the reads made through them.
C10_GetStoreRoundTrip ==
  /\ \A v \in CachedViews : getStore(v, adm, heap) = StoreVal(v.ref)
  /\ \A n \in Nodes : getStore(StoreVal(n), adm, heap) = StoreVal(n)
  /\ getStore(ObjVal("o"), adm, heap) = ObjVal("o")
  /\ \A c \in Live :
       /\ adm[c].store =
            IF mountArg[c].kind = "view" THEN StoreVal(mountArg[c].ref)
            ELSE mountArg[c]
       /\ GetSnapshot(adm[c], c).val.adm = c
       /\ GetSnapshot(adm[c], c).val.ref = mountArg[c].ref
       /\ \A n \in Nodes : adm[c].stats[n].accesses = reads[c][n]

\* The child was given the parent's view of a and read x through its own
\* view, while the parent read nothing of a.
C10_Witness ==
  /\ Live = {1, 2}
  /\ mountArg[2].kind = "view" /\ mountArg[2].adm = 1 /\ mountArg[2].ref = "a"
  /\ "x" \in reads[2]["a"]
  /\ reads[1]["a"] = {}

\* -------------------------------------------------------------------- C1
\* No key of n was added or removed since c's last beginRender, reported or
\* still queued.
NoKeysChange(c, n) ==
  /\ ~struct[c][n]
  /\ \A i \in Direct(pending[c][n]) :
       pending[c][n][i].op = "set" /\ ~pending[c][n][i].created

\* C1: for a node with no key added or removed since the last beginRender,
\* hasDirtyRead is true exactly when some key read on the node in this cycle
\* was also reported written on it since then.
C1_DirtyIffReadAndWritten ==
  \A c \in Live : \A n \in Nodes :
    adm[c].stats[n].exists /\ NoKeysChange(c, n) =>
      (HasDirtyRead(adm[c].stats[n]) <=> reads[c][n] \cap written[c][n] # {})

\* -------------------------------------------------------------------- C6
\* C6: a key added to or removed from a node does not make the node dirty
\* when its keys were not enumerated and the keys read on it were not written.
C6_KeyedReadsSurviveKeysChange ==
  \A c \in Live : \A n \in Nodes :
    /\ adm[c].stats[n].exists
    /\ struct[c][n]
    /\ ~enums[c][n]
    /\ reads[c][n] # {}
    /\ reads[c][n] \cap written[c][n] = {}
    => ~HasDirtyRead(adm[c].stats[n])

\* -------------------------------------------------------------------- C7
\* C7: a key added to or removed from a node makes the node dirty whenever
\* its keys were enumerated or probed in this cycle, keyed reads or not.
C7_EnumerationSeesKeysChange ==
  \A c \in Live : \A n \in Nodes :
    adm[c].stats[n].exists /\ struct[c][n] /\ enums[c][n]
      => HasDirtyRead(adm[c].stats[n])

\* -------------------------------------------------------------------- C2
\* The identity of the root view c was handed last.
RootView(A) == A.proxyCache[A.store.ref]

\* C2: once a notification has reported the write of a key that was read
\* before it in this cycle, the next getSnapshot returns a root view that is
\* not the one handed out before: the pull that is still to come, or, after
\* the subscribe step, the pull onStoreChange makes while the batch is
\* delivered.  (Views read the store itself, so the read through the new view
\* yields the value written; C9 covers what a read returns.)
C2_ReadThenWrittenGivesFreshRoot ==
  \A c \in Live :
    /\ due[c] => GetSnapshot(adm[c], c).val.id # RootView(adm[c])
    /\ \A n \in Nodes :
         /\ adm[c].onStoreChange = "handleStoreChange"
         /\ \E i \in Direct(pending[c][n]) : pending[c][n][i].rb
         => RootView(SubscribeCallback(adm[c], c, n, pending[c][n]))
              # RootView(adm[c])

\* -------------------------------------------------------------------- C3
\* A pull now would hand out the views c already has.
Settled(c) == GetSnapshot(adm[c], c).adm.proxyCache = adm[c].proxyCache

\* A batch of one write that neither adds nor removes a key, of a key c has
\* not read in this cycle.
UnreadWrite(c, n) ==
  /\ Len(pending[c][n]) = 1
  /\ Len(pending[c][n][1].path) = 1
  /\ pending[c][n][1].op = "set"
  /\ ~pending[c][n][1].created
  /\ pending[c][n][1].path[1] \notin reads[c][n]

\* C3: when the write of an unread key is reported and getSnapshot is pulled,
\* the root view and the view of every node are the ones from before the
\* write.
C3_UnreadWriteKeepsViews ==
  \A c \in Live : \A n \in Nodes :
    Settled(c) /\ UnreadWrite(c, n) =>
      LET A1 == SubscribeCallback(adm[c], c, n, pending[c][n])
      IN GetSnapshot(A1, c).adm.proxyCache = adm[c].proxyCache

\* -------------------------------------------------------------------- C5
\* The view a read of store p would be handed in the cycle after a pull now.
NextCycleView(c, p) ==
  GetOrCreateProxy(BeginRender(GetSnapshot(adm[c], c).adm), c, p, <<>>).val

ReadBelow(c, n) ==
  LET one == {m \in Nodes : n \in via[c][m]}
  IN one \cup {m \in Nodes : via[c][m] \cap one # {}}

\* d is in the subtree of n: a store below n in the graph, or reached from n
\* by the reads of this cycle.
Below(c, n, d) == PathTo(heap, n, d, 2) # <<>> \/ d \in ReadBelow(c, n)

\* C4: a node that was read in this cycle keeps its view over getSnapshot and
\* the next beginRender unless the node or a node of its subtree has a dirty
\* read.
C4_CleanSubtreeKeepsViews ==
  \A c \in Live : \A n \in Nodes :
    /\ adm[c].proxyCache[n] # 0
    /\ n = root(c) \/ via[c][n] # {}
    /\ \A d \in DirtyStores(adm[c]) : d # n /\ ~Below(c, n, d)
    => NextCycleView(c, n).id = adm[c].proxyCache[n]

\* -------------------------------------------------------------------- C8
\* The stores through whose views c reached d in this cycle.
ReadAbove(c, d) == via[c][d] \cup UNION {via[c][p] : p \in via[c][d]}

\* C8: when a node reached by reads along more than one path is found dirty,
\* resetDirtyProxies removes the cached view of the ancestors on every one of
\* those paths.
C8_EveryAccessPathEvicted ==
  \A c \in Live :
    Reconciles(adm[c]) =>
      \A d \in DirtyStores(adm[c]) : \A p \in ReadAbove(c, d) :
        ResetDirtyProxies(adm[c]).proxyCache[p] = 0

\* ------------------------------------------------------------------- C11
\* The batch queued for c's subscription to m is one write that neither adds
\* nor removes a key, of a key that c has not read in this cycle and that
\* another coordinator has.
ForeignWrite(c, m) ==
  /\ Len(pending[c][m]) = 1
  /\ pending[c][m][1].op = "set"
  /\ ~pending[c][m][1].created
  /\ pending[c][m][1].key \notin reads[c][pending[c][m][1].node]
  /\ \E o \in Live \ {c} :
       pending[c][m][1].key \in reads[o][pending[c][m][1].node]

\* C11: a write to a key that was read only through the views of another
\* coordinator leaves the root view getSnapshot returns to this coordinator
\* as it was, whenever the write is notified.
C11_ForeignWriteKeepsRootView ==
  \A c \in Live : \A m \in Nodes :
    Settled(c) /\ ForeignWrite(c, m) =>
      LET A1 == SubscribeCallback(adm[c], c, m, pending[c][m])
      IN GetSnapshot(A1, c).val.id = RootView(adm[c])


\* ------------------------------------------------------------------- C12
\* The op a subscriber of n is handed when n's own key k is assigned.
SetOp(n, k) ==
  [op |-> "set", path |-> <<k>>, created |-> FALSE, node |-> n, key |-> k,
   rb |-> TRUE]

\* C12: a read of a key through a view of a coordinator, whoever holds the
\* view, is entered in that coordinator's access record of the node, and a
\* write of the key reported afterwards makes the node dirty for that
\* coordinator and has its getSnapshot return a new root view.
C12_HandedViewReadsAreTracked ==
  \A c \in Live : \A n \in Nodes : \A k \in Keys :
    /\ adm[c].stats[n].exists
    /\ RootView(adm[c]) # 0
    /\ heap[n][k] # Undef
    /\ ~isStore(heap[n][k])
    => LET A1 == ProxyGet(adm[c], c, n, k, heap).adm
           A2 == RecordOp(A1, n, SetOp(n, k))
       IN /\ k \in A1.stats[n].accesses
          /\ HasDirtyRead(A2.stats[n])
          /\ GetSnapshot(A2, c).val.id # RootView(adm[c])

\* ------------------------------------------------------------------- C13
\* C13: when a key with a getter is read through a view, every key the getter
\* reads of this is entered in the access record of the node, and a write of
\* any of them reported afterwards makes the node dirty and has getSnapshot
\* return a new root view.
C13_GetterReadsAreTracked ==
  \A c \in Live : \A n \in Nodes : \A k \in Keys :
    /\ adm[c].stats[n].exists
    /\ RootView(adm[c]) # 0
    /\ heap[n][k].kind = "getter"
    => LET A1 == ProxyGet(adm[c], c, n, k, heap).adm
       IN \A d \in ThisReads(heap, n, k) \ {k} :
            /\ d \in A1.stats[n].accesses
            /\ heap[n][d].kind = "prim" =>
                 LET A2 == RecordOp(A1, n, SetOp(n, d))
                 IN /\ HasDirtyRead(A2.stats[n])
                    /\ GetSnapshot(A2, c).val.id # RootView(adm[c])

\* ------------------------------------------------------------------- C14
\* The coordinator as onStoreChange finds it when the callback calls it for
\* the i-th op of a batch.
AtOnStoreChange(A, c, n, ops, i) ==
  RecordOp(SubscribeCallback(A, c, n, SubSeq(ops, 1, i - 1)), n, ops[i])

\* C14: whenever onStoreChange is called while a batch of several ops is
\* delivered, the change records already hold every op of the batch, so that
\* the getSnapshot it pulls never sees only a prefix of the batch.
C14_BatchRecordedBeforeOnStoreChange ==
  \A c \in Live : \A n \in Nodes :
    /\ adm[c].onStoreChange = "handleStoreChange"
    /\ Len(pending[c][n]) >= 2
    => \A i \in 1..Len(pending[c][n]) : \A j \in Direct(pending[c][n]) :
         StringOf(pending[c][n][j].path[1])
           \in AtOnStoreChange(adm[c], c, n, pending[c][n], i).stats[n].changes

\* ------------------------------------------------------------------- C15
\* The ops a write of n's key k, made now, queues for c's subscription to m.
QueuedBy(c, m, n, k) ==
  LET P == Enqueue(pending, adm, heap, n, k, "set", FALSE)
  IN SubSeq(P[c][m], Len(pending[c][m]) + 1, Len(P[c][m]))

\* C15: once the function returned by the subscribe step has been called, a
\* mutation of a store reaches none of the coordinator's callbacks: no op is
\* queued for them, so no change record grows, hasNewChange and hasAnyChange
\* stay as they are and onStoreChange is not invoked.
C15_UnsubscribeStopsTracking ==
  \A c \in Live \ active : \A m \in Nodes : \A n \in Nodes : \A k \in Keys :
    heap[n][k].kind = "prim" =>
      LET A1 == SubscribeCallback(adm[c], c, m, QueuedBy(c, m, n, k))
      IN /\ QueuedBy(c, m, n, k) = <<>>
         /\ A1.stats[m].changes = adm[c].stats[m].changes
         /\ A1.hasNewChange = adm[c].hasNewChange
         /\ A1.hasAnyChange = adm[c].hasAnyChange

\* ------------------------------------------------------------------- C16
\* C16: beginRender empties the access record of every node and leaves the
\* change record of every node, its changed keys and its structural flag, as
\* it was.
C16_BeginRenderKeepsChanges ==
  \A c \in Live : \A n \in Nodes :
    adm[c].stats[n].exists =>
      /\ BeginRender(adm[c]).stats[n].accesses = {}
      /\ BeginRender(adm[c]).stats[n].changes = adm[c].stats[n].changes
      /\ BeginRender(adm[c]).stats[n].keysChange = adm[c].stats[n].keysChange

\* ------------------------------------------------------------------- C17
\* C17: a getSnapshot that compares reads and changes leaves the change
\* record of every node it judged empty, so that judging again, with no
\* notification in between, finds no node dirty.
C17_ReconcileConsumesChanges ==
  \A c \in Live :
    Reconciles(adm[c]) =>
      LET A1 == GetSnapshot(adm[c], c).adm
      IN /\ \A n \in Nodes :
              A1.stats[n].exists =>
                A1.stats[n].changes = {} /\ ~A1.stats[n].keysChange
         /\ DirtyStores(A1) = {}

\* ------------------------------------------------------------------- C18
\* C18: when the write of a key read in this cycle has been reported and no
\* getSnapshot was pulled since, the first getSnapshot of the next render
\* returns a root view that is not the one handed out before.
C18_IdleWriteSeenAtNextRender ==
  \A c \in Live :
    due[c] => GetSnapshot(BeginRender(adm[c]), c).val.id # RootView(adm[c])

\* ------------------------------------------------------------------- C19
\* C19: whenever getSnapshot would skip the comparison of reads and changes
\* (no new change, and no new access or no change ever), comparing them
\* anyway would find no store dirty that the last comparison had not found
\* dirty already.
C19_GateSkipsNothing ==
  \A c \in Live :
    ~Reconciles(adm[c]) => DirtyStores(adm[c]) \subseteq adm[c].lastDirty

\* getSnapshot would skip the comparison although a change was recorded and a
\* store is dirty: the one the last comparison found.
C19_Witness ==
  /\ 1 \in Live
  /\ ~Reconciles(adm[1])
  /\ adm[1].hasAnyChange
  /\ DirtyStores(adm[1]) # {}
  /\ adm[1].stats["root"].accesses # {}

\* ------------------------------------------------------------------- C20
\* The coordinator after i reads of n's key k through the view of n.
RECURSIVE ReadTimes(_, _, _, _, _)
ReadTimes(A, c, n, k, i) ==
  IF i = 0 THEN A
  ELSE ReadTimes(ProxyGet(A, c, n, k, heap).adm, c, n, k, i - 1)

\* C20: reading a key of a node several times in a cycle leaves the access
\* records, the set of dirty nodes and the root view getSnapshot returns
\* next as a single read leaves them.
C20_RepeatedReadsAsOne ==
  \A c \in Live : \A n \in Nodes : \A k \in ReadKeys(shape, n) :
    adm[c].stats[n].exists =>
      \A i \in 2..3 :
        LET once == ReadTimes(adm[c], c, n, k, 1)
            many == ReadTimes(adm[c], c, n, k, i)
        IN /\ \A m \in Nodes : many.stats[m].accesses = once.stats[m].accesses
           /\ DirtyStores(many) = DirtyStores(once)
           /\ GetSnapshot(many, c).val = GetSnapshot(once, c).val

\* The write of x of b was reported after x was read: one more read of x is
\* a repeated read, of a key that makes b dirty.
C20_Witness ==
  /\ 1 \in Live
  /\ "x" \in reads[1]["b"]
  /\ "x" \in adm[1].stats["b"].accesses
  /\ "x" \in adm[1].stats["b"].changes
  /\ Reconciles(adm[1])

\* ------------------------------------------------------------------- C21
\* C21: on stores that hold each other every read through a view returns,
\* and reads create nothing twice: a read that leads to a store whose view is
\* cached hands out that view and creates none, a store that has a
\* StoreStats keeps it, and as long as no change was ever reported no store
\* has had more than one view made for it, however many reads there were.
C21_CycleReadsCreateNothingTwice ==
  \A c \in Live :
    /\ ~adm[c].hasAnyChange => \A n \in Nodes : adm[c].made[n] <= 1
    /\ \A n \in Nodes : \A k \in ReadKeys(shape, n) :
         adm[c].stats[n].exists /\ isStore(heap[n][k]) =>
           LET t == heap[n][k].ref
               r == ProxyGet(adm[c], c, n, k, heap)
           IN /\ r.val.kind = "view" /\ r.val.ref = t
              /\ adm[c].proxyCache[t] # 0 =>
                   /\ r.adm.made = adm[c].made
                   /\ r.val.id = adm[c].proxyCache[t]
              /\ adm[c].stats[t].exists =>
                   r.adm.stats[t].parents = adm[c].stats[t].parents

\* The cycle was walked once around in an earlier render and again in this
\* one: root.a, then a.b, which is root again; no change was ever reported.
C21_Witness ==
  /\ shape = "cycle"
  /\ 1 \in Live
  /\ renders[1] = 0
  /\ "a" \in reads[1]["root"]
  /\ "b" \in reads[1]["a"]
  /\ ~adm[1].hasAnyChange
  /\ adm[1].stats["root"].parents = <<>>
  /\ adm[1].stats["a"].parents = <<"root">>

\* ------------------------------------------------------------------- C22
\* C22: as long as no change was ever reported to the coordinator, no store
\* is dirty, whatever was read and whatever is read next, and getSnapshot
\* returns the one root view there has been, before and after the next read.
C22_ReadsAloneNeverDirty ==
  \A c \in Live :
    ~adm[c].hasAnyChange =>
      /\ DirtyStores(adm[c]) = {}
      /\ adm[c].made[root(c)] = 1
      /\ GetSnapshot(adm[c], c).val.id = 1
      /\ \A n \in Nodes : \A k \in ReadKeys(shape, n) :
           adm[c].stats[n].exists =>
             LET A1 == ProxyGet(adm[c], c, n, k, heap).adm
             IN /\ DirtyStores(A1) = {}
                /\ GetSnapshot(A1, c).val.id = 1

\* Keys of three stores were read, getSnapshot has new accesses to look at,
\* and no change was ever reported.
C22_Witness ==
  /\ 1 \in Live
  /\ ~adm[1].hasAnyChange
  /\ adm[1].hasNewAccess
  /\ "x" \in reads[1]["b"]
  /\ "b" \in reads[1]["a"]
  /\ {"a", "b"} \subseteq reads[1]["root"]

\* ------------------------------------------------------------------- C23
\* The coordinator after the batch queued for its subscription to n by an
\* assignment with outcome w was delivered.
Delivered(c, n, w) ==
  SubscribeCallback(w.adm, c, n,
    SubSeq(w.pending[c][n], Len(pending[c][n]) + 1, Len(w.pending[c][n])))

\* C23: an assignment made through a view reaches the store (the key holds
\* the value), is reported to the coordinator's subscription to that store as
\* a set of that key, and once delivered leaves the coordinator's change
\* record of the store as the same assignment made on the store leaves it,
\* the key among the changed keys.
C23_ViewWriteIsStoreWrite ==
  \A c \in Live : \A n \in Nodes : \A k \in ReadKeys(shape, n) :
    adm[c].stats[n].exists /\ heap[n][k] \in {Prim("0"), Prim("1")} =>
      LET v == Inc(heap[n][k])
          w == ProxySet(adm, c, n, k, v, heap, pending)
          d == StoreSet(heap, pending, adm, n, k, v)
          last == w.pending[c][n][Len(w.pending[c][n])]
      IN /\ w.heap[n][k] = v
         /\ Len(w.pending[c][n]) = Len(pending[c][n]) + 1
         /\ last.op = "set" /\ last.path = <<k>> /\ last.node = n
         /\ k \in Delivered(c, n, w).stats[n].changes
         /\ Delivered(c, n, w).stats
              = Delivered(c, n, [adm |-> adm[c], pending |-> d.pending]).stats
         /\ Delivered(c, n, w).hasAnyChange

\* The component incremented x through its view, twice; the first increment
\* was delivered, the second is queued.
C23_Witness ==
  /\ shape = "flat"
  /\ 1 \in Live
  /\ heap["root"]["x"] = Prim("2")
  /\ "x" \in adm[1].stats["root"].changes
  /\ Len(pending[1]["root"]) = 1

\* ------------------------------------------------------------------- C24
\* The snapshot objects a caller of snapshot(state) was handed.
Handed == {id \in 1..Len(snaps) : snaps[id].handed}

\* C24: an assignment to a property of a snapshot a caller was handed, count
\* or the doubled that came from a getter with a setter, throws and leaves
\* the snapshot's properties as they were.
C24_SnapshotRejectsWrites ==
  \A id \in Handed : \A key \in {"count", "doubled"} :
    \A v \in 1..(2 * MaxCount) :
      /\ SetOnSnap(World, id, key, v).result.thrown
      /\ SetOnSnap(World, id, key, v).snaps[id] = snaps[id]

\* ------------------------------------------------------------------- C25
\* C25: reading doubled on a snapshot a caller was handed invokes no getter
\* and yields the value the getter gave when the snapshot was made, however
\* often it is read and whatever happened to the state since; reading
\* doubled on the state invokes a getter every time.
C25_SnapshotCachesGetter ==
  /\ \A id \in Handed :
       LET r1 == GetOnSnap(World, id, "doubled")
           r2 == GetOnSnap(r1, id, "doubled")
       IN /\ r1.getter = getter /\ r2.getter = getter
          /\ r1.result.value = Doubled(snaps[id].of)
          /\ r2.result.value = Doubled(snaps[id].of)
  /\ \E g \in Getters :
       /\ GetOnState(World).getter[g] = getter[g] + 1
       /\ GetOnState(GetOnState(World)).getter[g] = getter[g] + 2

\* ------------------------------------------------------------------- C26
\* C26: a createSnapshot that makes a new snapshot invokes every getter of
\* the state exactly once, wherever the accessor is defined: on the state,
\* on a prototype, on both, or on two prototypes.
C26_EachGetterOnce ==
  (snapCache = <<>> \/ snapCache[1] # target.version) =>
    \A g \in GettersOf(target) :
      createSnapshot(World).getter[g] = getter[g] + 1

\* ------------------------------------------------------------------- C27
\* C27: a second snapshot without an assignment in between, or after an
\* assignment of the value the property holds, is the object the first one
\* was; a snapshot after an assignment of another value is another object.
C27_SnapshotPerVersion ==
  LET W1 == createSnapshot(World)
  IN ~W1.result.thrown =>
       /\ createSnapshot(W1).result.snap = W1.result.snap
       /\ \A v \in 1..MaxCount :
            LET W2 == createSnapshot(SetOnState(W1, v))
            IN IF v = W1.target.count
               THEN W2.result.snap = W1.result.snap
               ELSE ~W2.result.thrown => W2.result.snap # W1.result.snap

\* A snapshot was taken, the count was assigned another value and then the
\* first value again, and a second snapshot was taken.
C27_Witness ==
  /\ Len(snaps) = 2
  /\ target.version = 3
  /\ snapCache = <<3, 2>>
  /\ snaps[1].handed /\ snaps[2].handed
  /\ snaps[1].of = snaps[2].of
\* ------------------------------------------------------------------- C28
\* The stores of a StoreRef whose accessed and changed keys intersect.
OldDirty(R) ==
  {R.stats[i].store : i \in {j \in 1..Len(R.stats) :
                               R.stats[j].accesses \cap R.stats[j].changes # {}}}

\* C28: when a batch of changes is recorded and getSnapshot reconciles, every
\* store whose accessed and changed keys intersect is among the stores
\* getDirtyStores returns and is no longer in the proxy cache afterwards; two
\* stores dirty at once both lose their entry.
C28_EveryDirtyStoreEvicted ==
  storeRef.live =>
    \A ops \in OldBatches :
      LET R == OldRecordOps(storeRef, ops)
      IN \A s \in OldDirty(R) :
           /\ s \in Range(getDirtyStores(R.stats))
           /\ s # "root" => s \notin OldGetSnapshot(R).proxyCache

\* The same with a getDirtyStores that goes on after the first dirty store.
C28_HoldsWithoutLabelledBreak ==
  storeRef.live =>
    \A ops \in OldBatches :
      LET R == OldRecordOps(storeRef, ops)
      IN \A s \in OldDirty(R) : s \in Range(getDirtyStoresAll(R.stats))

\* Two stores are dirty at once.
C28_TwoDirty ==
  storeRef.live /\ Cardinality(OldDirty(storeRef)) >= 2


\* ------------------------------------------------------------------- C29
\* C29: in the first variant of useStore, when no store is dirty and key k of
\* store N was not read since the last call of useStore, a set of k that is
\* notified now leaves N not dirty, and getSnapshot hands out the root proxy
\* it handed out before and keeps every cached proxy.
C29_DirtyOnlyByReadsOfThisCycle ==
  storeRef.live /\ OldDirty(storeRef) = {} =>
    \A o \in OldOps :
      <<o.node, o.path[2]>> \notin storeRef.read =>
        LET R == OldRecordOps(storeRef, <<o>>)
        IN /\ o.node \notin OldDirty(R)
           /\ OldGetSnapshot(R).proxy = storeRef.proxy
           /\ OldGetSnapshot(R).proxyCache = storeRef.proxyCache

\* A key that was read before the last call of useStore and not since, in a
\* state where nothing is dirty.
C29_ReadInEarlierCycleOnly ==
  /\ storeRef.live /\ OldDirty(storeRef) = {}
  /\ \E i \in 1..Len(storeRef.stats) : \E k \in storeRef.stats[i].accesses :
       <<storeRef.stats[i].store, k>> \notin storeRef.read

\* C29 for the UseStoreAdmin, whose beginRender clears the accesses: when no
\* store of c is dirty, nothing is queued and key k of N was not read since
\* c's last render, a set of k that is notified now leaves N not dirty and
\* every cached view of c in place.
C29_HoldsWithBeginRender ==
  \A c \in Live : \A n \in Nodes : \A k \in Keys :
    /\ adm[c].onStoreChange = "handleStoreChange"
    /\ adm[c].stats[n].exists /\ adm[c].stats[n].subscribed
    /\ DirtyStores(adm[c]) = {}
    /\ \A m \in Nodes : pending[c][m] = <<>>
    /\ k \notin reads[c][n]
    /\ heap[n][k] # Undef
    => LET A == SubscribeCallback(adm[c], c, n, <<SetOp(n, k)>>)
       IN /\ n \notin DirtyStores(A)
          /\ \A m \in Nodes :
               adm[c].proxyCache[m] # 0 => A.proxyCache[m] = adm[c].proxyCache[m]


\* ------------------------------------------------------------------- C30
\* What recording op, heard by c's subscription to m, adds to the change
\* record of j.
AddedBy(c, m, op, j) ==
  RecordOp(adm[c], m, op).stats[j].changes \ adm[c].stats[j].changes

\* A set of key k of n, made now, is recorded by c under the keys ks of n,
\* and under no key of another node, whichever subscription hears it; every
\* subscription that hears it raises hasNewChange and hasAnyChange.
RecordedOnOwnerOnly(c, n, k, ks) ==
  /\ Len(QueuedBy(c, n, n, k)) = 1
  /\ \A m \in Nodes : \A i \in 1..Len(QueuedBy(c, m, n, k)) :
       LET op == QueuedBy(c, m, n, k)[i]
       IN /\ RecordOp(adm[c], m, op).hasNewChange
          /\ RecordOp(adm[c], m, op).hasAnyChange
          /\ \A j \in Nodes :
               AddedBy(c, m, op, j) \subseteq (IF j = n /\ m = n THEN ks ELSE {})
  /\ ks \subseteq RecordOp(adm[c], n, QueuedBy(c, n, n, k)[1]).stats[n].changes

\* The nodes and keys c can hear a set of: n is tracked and holds k.
Hears(c, n, k) ==
  /\ adm[c].stats[n].exists /\ adm[c].stats[n].subscribed
  /\ heap[n][k] # Undef

\* C30: a notified set of key k of a tracked node n is recorded under k in
\* the change record of n, once, and in the change record of no other node,
\* its ancestors included, while hasNewChange and hasAnyChange are raised.
C30_RecordedOnOwnerUnderKey ==
  \A c \in Live : \A n \in Nodes : \A k \in Keys :
    Hears(c, n, k) => RecordedOnOwnerOnly(c, n, k, {k})

\* The same for the keys that are strings.
C30_HoldsForStringKeys ==
  \A c \in Live : \A n \in Nodes : \A k \in Keys \ {TagSym} :
    Hears(c, n, k) => RecordedOnOwnerOnly(c, n, k, {k})

\* A set of a key of a child is heard by the child's subscription and by the
\* root's, and the key is not yet in the child's change record.
C30_ChildAndRootHear ==
  \E c \in Live : \E n \in Nodes \ {"root"} : \E k \in Keys :
    /\ Hears(c, n, k)
    /\ QueuedBy(c, "root", n, k) # <<>>
    /\ k \notin adm[c].stats[n].changes


\* ------------------------------------------------------------------- C31
\* The op adds or removes a key of the store whose subscription hears it.
Structural(op) ==
  Len(op.path) = 1 /\ (op.op = "delete" \/ (op.op = "set" /\ op.created))

\* Recording op, heard by c's subscription to n, raises keysChange of n
\* exactly when the op is structural, and keysChange of no other node.
FlagExactly(c, n, op) ==
  /\ RecordOp(adm[c], n, op).stats[n].keysChange
       = (adm[c].stats[n].keysChange \/ Structural(op))
  /\ \A m \in Nodes \ {n} :
       RecordOp(adm[c], n, op).stats[m].keysChange = adm[c].stats[m].keysChange

\* C31: for every op queued for a subscription, the callback sets keysChange
\* of the node exactly when the op deletes one of the node's own keys or is
\* a set that created the key; a set of a key that existed puts the key in
\* the node's change record and leaves keysChange as it was.
C31_KeysChangeIffStructural ==
  \A c \in Live : \A n \in Nodes : \A i \in 1..Len(pending[c][n]) :
    LET op == pending[c][n][i]
    IN /\ FlagExactly(c, n, op)
       /\ Len(op.path) = 1 /\ op.op = "set" /\ ~op.created =>
            /\ op.path[1] \in RecordOp(adm[c], n, op).stats[n].changes
            /\ RecordOp(adm[c], n, op).stats[n].keysChange
                 = adm[c].stats[n].keysChange

\* The part of C31 about the flag, for every key.
C31_FlagHolds ==
  \A c \in Live : \A n \in Nodes : \A i \in 1..Len(pending[c][n]) :
    FlagExactly(c, n, pending[c][n][i])

\* C31 for the ops whose key is a string.
C31_HoldsForStringKeys ==
  \A c \in Live : \A n \in Nodes : \A i \in 1..Len(pending[c][n]) :
    LET op == pending[c][n][i]
    IN op.key # TagSym =>
         /\ FlagExactly(c, n, op)
         /\ Len(op.path) = 1 /\ op.op = "set" /\ ~op.created =>
              op.path[1] \in RecordOp(adm[c], n, op).stats[n].changes

\* A delete, a set that creates and a set that updates are each queued for
\* the subscription of the node that owns the key, with keysChange unset.
C31_DeleteQueued ==
  \E c \in Live : \E n \in Nodes : \E i \in Direct(pending[c][n]) :
    pending[c][n][i].op = "delete" /\ ~adm[c].stats[n].keysChange

C31_CreatingSetQueued ==
  \E c \in Live : \E n \in Nodes : \E i \in Direct(pending[c][n]) :
    pending[c][n][i].op = "set" /\ pending[c][n][i].created
      /\ ~adm[c].stats[n].keysChange

C31_UpdateQueued ==
  \E c \in Live : \E n \in Nodes : \E i \in Direct(pending[c][n]) :
    pending[c][n][i].op = "set" /\ ~pending[c][n][i].created
      /\ ~adm[c].stats[n].keysChange


\* ------------------------------------------------------------------- C32
\* The stores resetDirtyProxies is to evict: the dirty ones and the parents
\* their StoreStats recorded.
DirtyOrAncestor(A) ==
  UNION {Range(A.stats[n].parents) \cup {n} : n \in DirtyStores(A)}

\* C32: resetDirtyProxies leaves the cache entry of every store that is
\* neither dirty nor a recorded parent of a dirty store as it is, and the
\* getSnapshot that reconciles hands the view of such a store on unchanged.
C32_EvictsIndividually ==
  \A c \in Live : \A m \in Nodes \ DirtyOrAncestor(adm[c]) :
    /\ ResetDirtyProxies(adm[c]).proxyCache[m] = adm[c].proxyCache[m]
    /\ adm[c].proxyCache[m] # 0 =>
         GetSnapshot(adm[c], c).adm.proxyCache[m] = adm[c].proxyCache[m]

\* A reconciliation is due with a dirty store, while a store that is neither
\* dirty nor a parent of a dirty one has a cached view.
C32_Witness ==
  \E c \in Live :
    /\ Reconciles(adm[c])
    /\ DirtyStores(adm[c]) # {}
    /\ \E m \in Nodes \ DirtyOrAncestor(adm[c]) : adm[c].proxyCache[m] # 0


\* ------------------------------------------------------------------- C33
\* The root view a getSnapshot pulled now hands out, then a read of key k
\* through c's view of n, then a second getSnapshot: what the second hands out.
PullReadPull(c, n, k) ==
  GetSnapshot(ProxyGet(GetSnapshot(adm[c], c).adm, c, n, k, heap).adm, c).val

\* C33: within a render cycle, a getSnapshot, a read through a view and a
\* second getSnapshot, with no notification in between, hand out one and the
\* same root view: what the first pull invalidated is not invalidated again.
C33_PullsAgreeAcrossReads ==
  \A c \in Live : \A n \in Nodes : \A k \in ReadKeys(shape, n) :
    adm[c].stats[n].exists =>
      PullReadPull(c, n, k) = GetSnapshot(adm[c], c).val

\* Two getSnapshot pulls with nothing at all in between hand out one and the
\* same root view.
C33_PullsAgreeWithoutReads ==
  \A c \in Live :
    GetSnapshot(GetSnapshot(adm[c], c).adm, c).val = GetSnapshot(adm[c], c).val

\* The pulls agree across a read whenever the first pull finds no store dirty.
C33_HoldsWhenNothingWasDirty ==
  \A c \in Live : \A n \in Nodes : \A k \in ReadKeys(shape, n) :
    adm[c].stats[n].exists /\ DirtyStores(adm[c]) = {}
      /\ (\A m \in Nodes : adm[c].stats[m].changes = {}
                              /\ ~adm[c].stats[m].keysChange) =>
      PullReadPull(c, n, k) = GetSnapshot(adm[c], c).val

\* A first pull is due that finds a store dirty.
C33_DirtyBeforePull ==
  \E c \in Live : Reconciles(adm[c]) /\ DirtyStores(adm[c]) # {}


\* C33 for the reads that cannot make a store dirty by themselves: the key
\* has no recorded change and the store's keys did not change.
C33_PullsAgreeAcrossCleanReads ==
  \A c \in Live : \A n \in Nodes : \A k \in ReadKeys(shape, n) :
    /\ adm[c].stats[n].exists
    /\ k \notin adm[c].stats[n].changes
    /\ StringOf(k) \notin adm[c].stats[n].changes
    /\ ~adm[c].stats[n].keysChange
    /\ ~isStore(heap[n][k])
    => PullReadPull(c, n, k) = GetSnapshot(adm[c], c).val


\* ------------------------------------------------------------------- C34
\* The ops a set of key k of n, made now, queues for c with a path of one
\* key, over all of c's subscriptions.
DirectlyQueued(c, n, k) ==
  {<<m, i>> \in Nodes \X (1..2) :
     /\ i <= Len(QueuedBy(c, m, n, k))
     /\ Len(QueuedBy(c, m, n, k)[i].path) = 1}

\* C34: a coordinator has subscribed once to every store it has a StoreStats
\* for and to no other; making a view anew for a store whose view was
\* evicted leaves the store's StoreStats as it is, subscription included;
\* and a set of a key of a tracked store is queued once for the coordinator
\* as an op of that store.
C34_OneStoreStatsPerNode ==
  \A c \in Live : \A n \in Nodes :
    /\ adm[c].stats[n].subs = (IF adm[c].stats[n].exists THEN 1 ELSE 0)
    /\ adm[c].stats[n].exists /\ adm[c].proxyCache[n] = 0 =>
         \A parents \in {<<>>, adm[c].stats[n].parents, <<"root">>} :
           LET r == GetOrCreateProxy(adm[c], c, n, parents)
           IN r.adm.stats = adm[c].stats /\ r.val.id = adm[c].made[n] + 1
    /\ \A k \in Keys :
         Hears(c, n, k) => Cardinality(DirectlyQueued(c, n, k)) = 1

\* A store whose view was evicted and made anew, with accesses on record.
C34_Witness ==
  \E c \in Live : \E n \in Nodes :
    /\ adm[c].made[n] >= 2
    /\ adm[c].proxyCache[n] # 0
    /\ adm[c].stats[n].exists /\ adm[c].stats[n].subscribed
    /\ adm[c].stats[n].accesses # {}


\* ------------------------------------------------------------------- C35
\* C35: the lookup of the store symbol on a view of n hands back the store n
\* and leaves the coordinator as it is: no access is recorded, hasNewAccess
\* is not set, no store becomes dirty and the next getSnapshot hands out what
\* it would have handed out; getStore of the view is the store.
C35_StoreSymbolLookupIsPure ==
  \A c \in Live : \A n \in Nodes :
    adm[c].stats[n].exists =>
      LET r == ProxyGet(adm[c], c, n, GET_STORE_SYMBOL, heap)
      IN /\ r.val = StoreVal(n)
         /\ r.adm.stats[n].accesses = adm[c].stats[n].accesses
         /\ r.adm.hasNewAccess = adm[c].hasNewAccess
         /\ r.adm = adm[c]
         /\ DirtyStores(r.adm) = DirtyStores(adm[c])
         /\ GetSnapshot(r.adm, c) = GetSnapshot(adm[c], c)
         /\ adm[c].proxyCache[n] # 0 =>
              getStore(ViewVal(c, n, adm[c].proxyCache[n]), adm, heap)
                = StoreVal(n)

\* The child called useStore with a view of the parent's, and the parent has
\* a change on record for the store of that view.
C35_Witness ==
  /\ 2 \in Live
  /\ mountArg[2].kind = "view" /\ mountArg[2].adm = 1
  /\ adm[2].store = StoreVal(mountArg[2].ref)
  /\ adm[1].stats[mountArg[2].ref].changes # {}

====
